---- MODULE Spec2Model ----
(***************************************************************************)
(* A model of blp.py: the BLPInterface connection life cycle (open, close, *)
(* managed scope, destruction), request construction with option           *)
(* serialisation, the blocking polling loop of sendRequest against the     *)
(* session's event stream, and the shape decisions of the three reshaping  *)
(* routines.                                                               *)
(*                                                                         *)
(* The blpapi session is the environment.  It is modelled by what the code *)
(* relies on: a session object owns one stream of events, nextEvent(100)   *)
(* returns its next event or a TIMEOUT event, and the events that answer   *)
(* a request end with one event of type RESPONSE.  The blpapi calls        *)
(* of open() are taken to return normally, and a session that has been     *)
(* stopped refuses sendRequest by raising.                                 *)
(***************************************************************************)
EXTENDS Integers, Sequences, FiniteSets, TLC

VARIABLES
    active,        \* self.active
    session,       \* self.session / self.refDataService: 0 while unassigned,
                   \* else the identity of the session object
    sessionUp,     \* the session object of self.session is started, not stopped
    log,           \* session.start() / session.stop() calls made so far
    destroyed,     \* __del__ has run
    scope,         \* "outside" or "inside" a with-block on the object
    exitExc,       \* the error that ended the body of the last with-block
    propagated,    \* the error that reached the caller of that with-block
    pc,            \* "idle", "polling", "returned", "raised"
    req,           \* the arguments of the request being (or last) processed
    attached,      \* request.set(k, v): the options attached to the request
    submitted,     \* the last request call reached session.sendRequest
    served,        \* per request id: what the service has produced for it
    response,      \* the local list response of sendRequest
    polled,        \* the messages the current call has iterated over
    terminals,     \* events of type RESPONSE the current call has polled
    result,        \* what the request method returned
    error,         \* the exception the request method raised
    startDate,     \* the caller's startDate argument
    endDate,       \* the caller's endDate argument
    kwargs,        \* the caller's keyword options
    padYear,       \* the C library pads %Y to four digits
    msgBudget,     \* messages the service may still produce
    reqBudget,     \* requests the caller may still issue
    sessBudget     \* sessions that may still be created

vars == <<active, session, sessionUp, log, destroyed, scope, exitExc,
          propagated, pc, req, attached, submitted, served, response,
          polled, terminals, result, error, startDate, endDate,
          kwargs, padYear, msgBudget, reqBudget, sessBudget>>

\* Bounds of the model.
MaxMsgs == 2
MaxRequests == 2
MaxSessions == 2
MaxBatch == 2
MaxPartials == 1

(***************************************************************************)
(* Option values.  t is the Python type of the value: "datetime" is        *)
(* datetime.datetime itself, "date" is datetime.date (a calendar date that *)
(* is not a datetime.datetime), "str" a string of digits, "name" any other *)
(* string, "bool" a boolean.                                               *)
(***************************************************************************)
Val(t, y, m, d, digits, name, b) ==
    [t |-> t, y |-> y, m |-> m, d |-> d, digits |-> digits, name |-> name, b |-> b]

DateTime(y, m, d) == Val("datetime", y, m, d, <<>>, "", FALSE)
Date(y, m, d)     == Val("date", y, m, d, <<>>, "", FALSE)
Str(digits)       == Val("str", 0, 0, 0, digits, "", FALSE)
Name(n)           == Val("name", 0, 0, 0, <<>>, n, FALSE)
Bool(b)           == Val("bool", 0, 0, 0, <<>>, "", b)

Years  == {999, 2014}
Months == {1, 12}
Days   == {1, 31}

DateValues ==
    {DateTime(y, m, d) : y \in Years, m \in Months, d \in Days}
    \cup {Date(y, m, d) : y \in {2014}, m \in {12}, d \in Days}

OtherValues == {Str(<<2, 0, 1, 4, 1, 2, 3, 1>>), Name("WEEKLY"), Bool(TRUE)}

Values == DateValues \cup OtherValues

\* The decimal digits of n, most significant first, without padding.
RECURSIVE DigitsOf(_)
DigitsOf(n) == IF n < 10 THEN <<n>> ELSE DigitsOf(n \div 10) \o <<n % 10>>

RECURSIVE ZeroPad(_, _)
ZeroPad(s, w) == IF Len(s) >= w THEN s ELSE ZeroPad(<<0>> \o s, w)

\* v.strftime('%Y%m%d'): %m and %d are two digits wide; the width of %Y is
\* the C library's (glibc prints the year unpadded, others pad to four).
strftime(v, pad) ==
    (IF pad THEN ZeroPad(DigitsOf(v.y), 4) ELSE DigitsOf(v.y))
        \o ZeroPad(DigitsOf(v.m), 2) \o ZeroPad(DigitsOf(v.d), 2)

\* A mutant of SerializeOption: day before month.
SerializeOption_DayFirst(v, pad) ==
    IF v.t = "datetime"
    THEN Str((IF pad THEN ZeroPad(DigitsOf(v.y), 4) ELSE DigitsOf(v.y))
             \o ZeroPad(DigitsOf(v.d), 2) \o ZeroPad(DigitsOf(v.m), 2))
    ELSE v

\* sendRequest, lines 211-212: the value request.set receives for option
\* value v.
SerializeOption(v, pad) ==
    IF v.t = "datetime" THEN Str(strftime(v, pad)) ELSE v

(***************************************************************************)
(* Reading a YYYYMMDD string back, as datetime.strptime(s, '%Y%m%d') does: *)
(* %Y is exactly four digits, %m is 1[0-2] | 0[1-9] | [1-9], %d is         *)
(* 3[01] | [12]\d | 0[1-9] | [1-9], alternatives are tried in that order,  *)
(* the whole string must be consumed and the date must exist.              *)
(***************************************************************************)
NoDate == <<0, 0, 0>>

MonthAlts(s) ==
    (IF Len(s) >= 2 /\ s[1] = 1 /\ s[2] \in 0..2 THEN <<<<10 + s[2], 2>>>> ELSE <<>>)
    \o (IF Len(s) >= 2 /\ s[1] = 0 /\ s[2] \in 1..9 THEN <<<<s[2], 2>>>> ELSE <<>>)
    \o (IF Len(s) >= 1 /\ s[1] \in 1..9 THEN <<<<s[1], 1>>>> ELSE <<>>)

DayAlts(s) ==
    (IF Len(s) >= 2 /\ s[1] = 3 /\ s[2] \in 0..1 THEN <<<<30 + s[2], 2>>>> ELSE <<>>)
    \o (IF Len(s) >= 2 /\ s[1] \in 1..2 THEN <<<<10 * s[1] + s[2], 2>>>> ELSE <<>>)
    \o (IF Len(s) >= 2 /\ s[1] = 0 /\ s[2] \in 1..9 THEN <<<<s[2], 2>>>> ELSE <<>>)
    \o (IF Len(s) >= 1 /\ s[1] \in 1..9 THEN <<<<s[1], 1>>>> ELSE <<>>)

IsLeap(y) == (y % 4 = 0 /\ y % 100 # 0) \/ y % 400 = 0

DaysIn(y, m) ==
    IF m = 2 THEN (IF IsLeap(y) THEN 29 ELSE 28)
    ELSE IF m \in {4, 6, 9, 11} THEN 30 ELSE 31

Drop(s, n) == SubSeq(s, n + 1, Len(s))

strptime(s) ==
    IF Len(s) < 4 THEN NoDate
    ELSE
      LET y    == 1000 * s[1] + 100 * s[2] + 10 * s[3] + s[4]
          rest == Drop(s, 4)
          ms   == SelectSeq(MonthAlts(rest), LAMBDA a : DayAlts(Drop(rest, a[2])) # <<>>)
      IN  IF ms = <<>> THEN NoDate
          ELSE
            LET ma == ms[1]
                da == DayAlts(Drop(rest, ma[2]))[1]
            IN  IF /\ ma[2] + da[2] = Len(rest)
                   /\ y >= 1
                   /\ da[1] <= DaysIn(y, ma[1])
                THEN <<y, ma[1], da[1]>>
                ELSE NoDate

(***************************************************************************)
(* Messages.  A message is what the code asks of it: its messageType() and *)
(* which of the elements responseError, securityData,                      *)
(* securityData.fieldExceptions (absent, empty or not) and                 *)
(* securityData.securityError it has.  nvals is the number of field values *)
(* (rows, for a bulk field) under its securityData.  rid says which        *)
(* request the service produced it for, and seq is its number among all    *)
(* the messages the service has produced.                                  *)
(***************************************************************************)
ResponseType(requestType) ==
    IF requestType = "HistoricalData" THEN "HistoricalDataResponse"
    ELSE "ReferenceDataResponse"

Elements(re, sd, fe, se) ==
    [responseError |-> re, securityData |-> sd, fieldExceptions |-> fe,
     securityError |-> se]

NoData    == Elements(FALSE, FALSE, "absent", FALSE)
PlainData == Elements(FALSE, TRUE, "absent", FALSE)

\* The element combinations the checks of lines 221-227 tell apart.
ElementShapes ==
    {PlainData,
     Elements(TRUE, FALSE, "absent", FALSE),
     Elements(FALSE, TRUE, "empty", FALSE),
     Elements(FALSE, TRUE, "nonempty", FALSE),
     Elements(FALSE, TRUE, "absent", TRUE),
     Elements(FALSE, TRUE, "nonempty", TRUE)}

\* What the service may send in answer to a request of the given type:
\* messages of the response type, with or without field values, and
\* messages of another type.
MsgShapes(requestType) ==
    {[mtype |-> ResponseType(requestType), el |-> e, nvals |-> 0] : e \in ElementShapes}
    \cup {[mtype |-> ResponseType(requestType), el |-> PlainData, nvals |-> 1]}
    \cup {[mtype |-> "Other", el |-> e, nvals |-> 0] :
             e \in {NoData, Elements(FALSE, TRUE, "absent", TRUE)}}

Msg(rid, seq, shape) ==
    [rid |-> rid, seq |-> seq, mtype |-> shape.mtype,
     responseError |-> shape.el.responseError,
     securityData |-> shape.el.securityData,
     fieldExceptions |-> shape.el.fieldExceptions,
     securityError |-> shape.el.securityError,
     nvals |-> shape.nvals]

NoError  == [description |-> "none", rid |-> 0, seq |-> 0]
NoResult == [form |-> "none", axis |-> "none"]
NoReq    == [kind |-> "none", requestType |-> "none", secIsStr |-> FALSE,
             fldIsStr |-> FALSE, rid |-> 0]
NoOpts   == [k \in {} |-> Bool(FALSE)]

Table(axis) == [form |-> "table", axis |-> axis]
Scalar      == [form |-> "scalar", axis |-> "none"]

RequestErrorKinds == {"Response Error", "Field Error", "Security Error"}

\* A mutant of ErrorOf: the security error is no longer looked for.
ErrorOf_NoSecurityCheck(msg) ==
    IF msg.responseError THEN "Response Error"
    ELSE IF msg.securityData /\ msg.fieldExceptions = "nonempty" THEN "Field Error"
    ELSE "none"

\* sendRequest, lines 221-227: the RequestError a message raises, if any.
ErrorOf(msg) ==
    IF msg.responseError THEN "Response Error"
    ELSE IF msg.securityData /\ msg.fieldExceptions = "nonempty" THEN "Field Error"
    ELSE IF msg.securityData /\ msg.securityError THEN "Security Error"
    ELSE "none"

\* The index of the first message of msgs that raises, 0 if none does.
FirstError(msgs) ==
    LET bad == {i \in 1..Len(msgs) : ErrorOf(msgs[i]) # "none"}
    IN  IF bad = {} THEN 0 ELSE CHOOSE i \in bad : \A j \in bad : i <= j

\* A mutant of Retain: every message is kept, whatever its type.
Retain_AnyType(msgs, requestType) == msgs

\* sendRequest, lines 229-230: the messages of one event that are appended
\* to response.
Retain(msgs, requestType) ==
    SelectSeq(msgs, LAMBDA m : m.mtype = ResponseType(requestType))

\* A mutant of IsTerminal: a partial response ends the loop too.
IsTerminal_Partial(etype) == etype \in {"RESPONSE", "PARTIAL_RESPONSE"}

\* sendRequest, lines 232-233.
IsTerminal(etype) == etype = "RESPONSE"

(***************************************************************************)
(* The shape decisions of the three reshaping routines.                    *)
(***************************************************************************)
RECURSIVE TotalVals(_)
TotalVals(resp) ==
    IF resp = <<>> THEN 0 ELSE Head(resp).nvals + TotalVals(Tail(resp))

\* A mutant of historicalResult: the shape follows the number of messages.
historicalResult_ByLength(resp, secIsStr) ==
    IF Len(resp) = 0 THEN Table("empty")
    ELSE IF Len(resp) = 1 THEN Table("flat")
    ELSE Table("twoLevel")

\* historicalRequest, lines 107-116: one fragment per message of response.
historicalResult(resp, secIsStr) ==
    IF Len(resp) = 0 THEN Table("empty")
    ELSE IF secIsStr THEN Table("flat")
    ELSE Table("twoLevel")

\* A mutant of referenceResult: the table is returned even for scalars.
referenceResult_AlwaysTable(resp, secIsStr, fldIsStr) ==
    IF TotalVals(resp) = 0 THEN Table("empty") ELSE Table("flat")

\* referenceRequest, lines 139-144: data is empty unless a value was stored.
referenceResult(resp, secIsStr, fldIsStr) ==
    IF TotalVals(resp) = 0 THEN Table("empty")
    ELSE IF secIsStr /\ fldIsStr THEN Scalar
    ELSE Table("flat")

\* bulkRequest, lines 178-190: one fragment per security that has rows.
bulkResult(resp, secIsStr) ==
    LET frags == SelectSeq(resp, LAMBDA m : m.nvals > 0)
    IN  IF Len(frags) = 0 THEN Table("empty")
        ELSE IF secIsStr THEN Table("columns")
        ELSE Table("stackedRows")

Reshape(r, resp) ==
    CASE r.kind = "historical" -> historicalResult(resp, r.secIsStr)
      [] r.kind = "reference"  -> referenceResult(resp, r.secIsStr, r.fldIsStr)
      [] r.kind = "bulk"       -> bulkResult(resp, r.secIsStr)

(***************************************************************************)
(* The connection life cycle.                                              *)
(***************************************************************************)
connVars  == <<active, session, sessionUp, log>>
callVars  == <<pc, req, attached, submitted, response, polled, terminals,
               result, error>>
argVars   == <<startDate, endDate, kwargs, padYear>>
scopeVars == <<scope, exitExc, propagated>>

Idle == pc # "polling" /\ ~destroyed

\* The caller has moved on to another method: the value or the error of the
\* previous request call, and the locals of that call, are gone.
Forget ==
    /\ pc' = "idle"
    /\ req' = NoReq
    /\ attached' = NoOpts
    /\ submitted' = FALSE
    /\ response' = <<>>
    /\ polled' = <<>>
    /\ terminals' = 0
    /\ result' = NoResult
    /\ error' = NoError

\* Likewise for what left the last with-block.
Handled == exitExc' = "none" /\ propagated' = "none"

\* What the service keeps of a request it is done with.
Answered == [requestType |-> "none", partials |-> 0, done |-> TRUE]

\* The requests of a session that is gone are answered no more.
Abandon(s) == [i \in DOMAIN s |-> Answered]

\* A mutant of openBody: the guard on self.active is missing.
openBody_NoGuard ==
    /\ sessBudget > 0
    /\ session' = session + 1
    /\ sessionUp' = TRUE
    /\ log' = Append(log, "start")
    /\ active' = TRUE
    /\ served' = Abandon(served)
    /\ sessBudget' = sessBudget - 1

\* open(), lines 52-61.
openBody ==
    IF ~active
    THEN /\ sessBudget > 0
         /\ session' = session + 1
         /\ sessionUp' = TRUE
         /\ log' = Append(log, "start")
         /\ active' = TRUE
         /\ served' = Abandon(served)
         /\ sessBudget' = sessBudget - 1
    ELSE UNCHANGED <<connVars, served, sessBudget>>

\* A mutant of closeBody: the session is stopped, the flag is left set.
closeBody_FlagKept ==
    IF active
    THEN /\ sessionUp' = FALSE
         /\ log' = Append(log, "stop")
         /\ served' = Abandon(served)
         /\ UNCHANGED <<active, session>>
    ELSE UNCHANGED <<connVars, served>>

\* close(), lines 63-66.
closeBody ==
    IF active
    THEN /\ sessionUp' = FALSE
         /\ log' = Append(log, "stop")
         /\ active' = FALSE
         /\ served' = Abandon(served)
         /\ UNCHANGED session
    ELSE UNCHANGED <<connVars, served>>

open ==
    /\ Idle
    /\ openBody
    /\ Forget
    /\ Handled
    /\ UNCHANGED <<destroyed, scope, argVars, msgBudget, reqBudget>>

close ==
    /\ Idle
    /\ closeBody
    /\ Forget
    /\ Handled
    /\ UNCHANGED <<destroyed, scope, argVars, msgBudget, reqBudget,
                   sessBudget>>

\* __enter__, lines 237-239.
enter ==
    /\ Idle
    /\ scope = "outside"
    /\ openBody
    /\ scope' = "inside"
    /\ Forget
    /\ Handled
    /\ UNCHANGED <<destroyed, argVars, msgBudget,
                   reqBudget>>

\* __exit__, lines 241-242, returns None: the error is not suppressed.
exitSuppresses == FALSE

\* The errors that can end the body of the with-block in the present state.
BodyExits ==
    {"none", "OtherError"}
    \cup (IF pc = "raised" /\ error.description \in RequestErrorKinds
          THEN {"RequestError"} ELSE {})

\* __exit__, lines 241-242.
exit ==
    /\ Idle
    /\ scope = "inside"
    /\ \E exc \in BodyExits :
          /\ exitExc' = exc
          /\ propagated' = IF exitSuppresses THEN "none" ELSE exc
    /\ closeBody
    /\ scope' = "outside"
    /\ Forget
    /\ UNCHANGED <<destroyed, argVars, msgBudget, reqBudget, sessBudget>>

\* __del__, lines 244-245.
del ==
    /\ Idle
    /\ scope = "outside"
    /\ closeBody
    /\ destroyed' = TRUE
    /\ Forget
    /\ Handled
    /\ UNCHANGED <<scope, argVars, msgBudget, reqBudget, sessBudget>>

(***************************************************************************)
(* Request construction and submission.                                    *)
(***************************************************************************)
\* historicalRequest, lines 74-83: the defaults, overridden by kwargs.
HistoricalDefaults ==
    [k \in {"startDate", "endDate", "periodicityAdjustment", "periodicitySelection",
            "nonTradingDayFillOption", "adjustmentNormal", "adjustmentAbnormal",
            "adjustmentSplit", "adjustmentFollowDPDF"} |->
        CASE k = "startDate"               -> startDate
          [] k = "endDate"                 -> endDate
          [] k = "periodicityAdjustment"   -> Name("ACTUAL")
          [] k = "periodicitySelection"    -> Name("DAILY")
          [] k = "nonTradingDayFillOption" -> Name("ACTIVE_DAYS_ONLY")
          [] k = "adjustmentNormal"        -> Bool(FALSE)
          [] k = "adjustmentAbnormal"      -> Bool(FALSE)
          [] k = "adjustmentSplit"         -> Bool(TRUE)
          [] k = "adjustmentFollowDPDF"    -> Bool(FALSE)]

HistoricalElements == kwargs @@ HistoricalDefaults

\* sendRequest, lines 210-213.
Attach(elements) == [k \in DOMAIN elements |-> SerializeOption(elements[k], padYear)]

\* sendRequest, lines 199-217, up to the first nextEvent.  Line 199 raises
\* AttributeError while self.refDataService was never assigned; nothing in
\* the method reads self.active.
sendRequest(kind, requestType, secIsStr, fldIsStr, elements) ==
    /\ Idle
    /\ reqBudget > 0
    /\ reqBudget' = reqBudget - 1
    /\ result' = NoResult
    /\ response' = <<>>
    /\ polled' = <<>>
    /\ terminals' = 0
    /\ IF session = 0
       THEN /\ pc' = "raised"
            /\ error' = [NoError EXCEPT !.description = "AttributeError"]
            /\ attached' = NoOpts
            /\ submitted' = FALSE
            /\ req' = [kind |-> kind, requestType |-> requestType,
                       secIsStr |-> secIsStr, fldIsStr |-> fldIsStr, rid |-> 0]
            /\ UNCHANGED served
       ELSE /\ attached' = Attach(elements)
            /\ submitted' = TRUE
            /\ IF sessionUp
               THEN /\ pc' = "polling"
                    /\ error' = NoError
                    /\ req' = [kind |-> kind, requestType |-> requestType,
                               secIsStr |-> secIsStr, fldIsStr |-> fldIsStr,
                               rid |-> Len(served) + 1]
                    /\ served' = Append(served,
                                        [requestType |-> requestType,
                                         partials |-> 0, done |-> FALSE])
               ELSE /\ pc' = "raised"
                    /\ error' = [NoError EXCEPT !.description = "SessionError"]
                    /\ req' = [kind |-> kind, requestType |-> requestType,
                               secIsStr |-> secIsStr, fldIsStr |-> fldIsStr,
                               rid |-> 0]
                    /\ UNCHANGED served
    /\ Handled
    /\ UNCHANGED <<connVars, destroyed, scope, argVars, msgBudget, sessBudget>>

\* historicalRequest, lines 68-85.
historicalRequest ==
    \E secIsStr \in BOOLEAN, fldIsStr \in BOOLEAN :
        sendRequest("historical", "HistoricalData", secIsStr, fldIsStr,
                    HistoricalElements)

\* referenceRequest, lines 118-124.
referenceRequest ==
    \E secIsStr \in BOOLEAN, fldIsStr \in BOOLEAN :
        sendRequest("reference", "ReferenceData", secIsStr, fldIsStr, kwargs)

\* bulkRequest, lines 146-156.
bulkRequest ==
    \E secIsStr \in BOOLEAN, fldIsStr \in BOOLEAN :
        sendRequest("bulk", "ReferenceData", secIsStr, fldIsStr, kwargs)

(***************************************************************************)
(* The service.  It answers each submitted request with a sequence of      *)
(* events: partial responses and events of other types (which carry none   *)
(* of its messages), and last one event of type RESPONSE.  The session     *)
(* hands them out through nextEvent, whichever call is polling; an event   *)
(* is drawn here at the moment nextEvent returns it.                       *)
(***************************************************************************)
\* The batches of messages one event can carry: at most MaxBatch messages,
\* and no more than the service may still produce.
Batches(requestType) ==
    UNION {[1..n -> MsgShapes(requestType)] :
              n \in 0..(IF msgBudget < MaxBatch THEN msgBudget ELSE MaxBatch)}

Produced == MaxMsgs - msgBudget

Event(etype, rid, batch) ==
    [etype |-> etype,
     msgs  |-> [i \in 1..Len(batch) |-> Msg(rid, Produced + i, batch[i])]]

Pending == {rid \in DOMAIN served : ~served[rid].done}

(***************************************************************************)
(* The polling loop of sendRequest, one nextEvent(100) at a time, and the  *)
(* reshaping that follows its return.                                      *)
(***************************************************************************)
\* One pass of the for loop and the test after it, lines 220-233, on the
\* event ev; on break, line 235 and the reshaping of the calling method.
Process(ev) ==
    LET i == FirstError(ev.msgs)
        t == IF ev.etype = "RESPONSE" THEN 1 ELSE 0
    IN  IF i > 0
        THEN /\ pc' = "raised"
             /\ error' = [description |-> ErrorOf(ev.msgs[i]),
                          rid |-> ev.msgs[i].rid, seq |-> ev.msgs[i].seq]
             /\ polled' = polled \o SubSeq(ev.msgs, 1, i)
             /\ response' = <<>>
             /\ UNCHANGED <<terminals, result>>
        ELSE /\ polled' = polled \o ev.msgs
             /\ response' = response \o Retain(ev.msgs, req.requestType)
             /\ error' = NoError
             /\ terminals' = terminals + t
             /\ IF IsTerminal(ev.etype)
                THEN /\ pc' = "returned"
                     /\ result' = Reshape(req, response')
                ELSE UNCHANGED <<pc, result>>

\* nextEvent(100) with nothing to hand out: an event of type TIMEOUT, which
\* has no messages.
PollTimeout ==
    /\ pc = "polling"
    /\ Process([etype |-> "TIMEOUT", msgs |-> <<>>])
    /\ UNCHANGED <<connVars, served, destroyed, scopeVars, req, attached,
                   submitted, argVars, msgBudget, reqBudget, sessBudget>>

\* nextEvent(100) returns an event that is not the last of its request.
PollPartial ==
    /\ pc = "polling"
    /\ \E rid \in Pending :
          /\ served[rid].partials < MaxPartials
          /\ \E etype \in {"PARTIAL_RESPONSE", "OTHER"},
                batch \in Batches(served[rid].requestType) :
                /\ etype = "OTHER" => batch = <<>>
                /\ msgBudget' = msgBudget - Len(batch)
                /\ served' = [served EXCEPT ![rid].partials = @ + 1]
                /\ Process(Event(etype, rid, batch))
    /\ UNCHANGED <<connVars, destroyed, scopeVars, req, attached, submitted,
                   argVars, reqBudget, sessBudget>>

\* nextEvent(100) returns the event of type RESPONSE that ends some request.
PollResponse ==
    /\ pc = "polling"
    /\ \E rid \in Pending :
          /\ served' = [served EXCEPT ![rid] = Answered]
          /\ \E batch \in Batches(served[rid].requestType) :
                /\ msgBudget' = msgBudget - Len(batch)
                /\ Process(Event("RESPONSE", rid, batch))
    /\ UNCHANGED <<connVars, destroyed, scopeVars, req, attached, submitted,
                   argVars, reqBudget, sessBudget>>

(***************************************************************************)
(* Construction, lines 45-50, and the specifications.                      *)
(***************************************************************************)
Constructed(isOpen) ==
    /\ active = isOpen
    /\ session = (IF isOpen THEN 1 ELSE 0)
    /\ sessionUp = isOpen
    /\ log = (IF isOpen THEN <<"start">> ELSE <<>>)
    /\ sessBudget = (IF isOpen THEN MaxSessions - 1 ELSE MaxSessions)
    /\ destroyed = FALSE
    /\ scope = "outside"
    /\ exitExc = "none"
    /\ propagated = "none"
    /\ pc = "idle"
    /\ req = NoReq
    /\ attached = NoOpts
    /\ submitted = FALSE
    /\ served = <<>>
    /\ response = <<>>
    /\ polled = <<>>
    /\ terminals = 0
    /\ result = NoResult
    /\ error = NoError

\* The arguments of the examples of main(), lines 260-272.
Init ==
    /\ \E isOpen \in BOOLEAN : Constructed(isOpen)
    /\ startDate = Str(<<2, 0, 1, 4, 1, 2, 3, 1>>)
    /\ endDate = Str(<<2, 0, 1, 5, 0, 1, 3, 1>>)
    /\ kwargs = NoOpts
    /\ padYear = FALSE
    /\ msgBudget = MaxMsgs
    /\ reqBudget = MaxRequests

Next ==
    \/ open
    \/ close
    \/ enter
    \/ exit
    \/ del
    \/ historicalRequest
    \/ referenceRequest
    \/ bulkRequest
    \/ PollTimeout
    \/ PollPartial
    \/ PollResponse

Spec == Init /\ [][Next]_vars

\* As Init, with a service that produces two messages in all: whether the
\* loop ends depends on the events polled, and two messages let a partial
\* response and the final one carry a message each.
InitLive ==
    /\ \E isOpen \in BOOLEAN : Constructed(isOpen)
    /\ startDate = Str(<<2, 0, 1, 4, 1, 2, 3, 1>>)
    /\ endDate = Str(<<2, 0, 1, 5, 0, 1, 3, 1>>)
    /\ kwargs = NoOpts
    /\ padYear = FALSE
    /\ msgBudget = 2
    /\ reqBudget = MaxRequests

\* The polling loop keeps running, and the claim about its termination
\* assumes that the service does end the answer to a request.
SpecLive == InitLive /\ [][Next]_vars /\ WF_vars(PollResponse)

\* One request on an open connection, answered by events without messages;
\* the caller's option values are drawn from Values, the C library from the
\* two kinds.
InitDate ==
    /\ Constructed(TRUE)
    /\ startDate \in Values
    /\ endDate \in {Str(<<2, 0, 1, 5, 0, 1, 3, 1>>), DateTime(2014, 1, 31)}
    /\ kwargs \in {NoOpts}
                  \cup {k :> v : k \in {"endDate", "periodicitySelection"}, v \in Values}
    /\ padYear \in BOOLEAN
    /\ msgBudget = 0
    /\ reqBudget = 1

SpecDate == InitDate /\ [][Next]_vars

(***************************************************************************)
(* The claims.                                                             *)
(***************************************************************************)
HasSecurityError(m) == m.securityData /\ m.securityError

ExpectedOnly(msgs, requestType) ==
    SelectSeq(msgs, LAMBDA m :
        (requestType = "HistoricalData" /\ m.mtype = "HistoricalDataResponse")
        \/ (requestType = "ReferenceData" /\ m.mtype = "ReferenceDataResponse"))

\* C1, as stated: whenever a message the call has iterated over carries a
\* security error, the call has raised RequestError 'Security Error' and has
\* returned no response set.
C1_Original ==
    \A i \in DOMAIN polled :
        HasSecurityError(polled[i]) =>
            /\ pc = "raised"
            /\ error.description = "Security Error"
            /\ result = NoResult

\* C1, amended: a message with a security error that the loop reaches makes
\* the call raise a RequestError about that message, with no response set;
\* the description is 'Security Error' exactly when the message carries
\* neither a response error nor a non-empty list of field exceptions, which
\* are tested first.
C1_SecurityErrorFails ==
    \A i \in DOMAIN polled :
        HasSecurityError(polled[i]) =>
            /\ pc = "raised"
            /\ result = NoResult
            /\ response = <<>>
            /\ i = Len(polled)
            /\ error.rid = polled[i].rid /\ error.seq = polled[i].seq
            /\ error.description \in RequestErrorKinds
            /\ error.description = "Security Error"
                  <=> (~polled[i].responseError
                       /\ polled[i].fieldExceptions # "nonempty")

\* A valid message was retained, then a message with a security error came.
C1_Witness ==
    /\ pc = "raised"
    /\ error.description = "Security Error"
    /\ Len(polled) = 2
    /\ polled[1].nvals = 1

BothScalar == req.kind = "reference" /\ req.secIsStr /\ req.fldIsStr

\* C2, as stated: a reference request with scalar securities and scalar
\* fields that completes returns a bare scalar, never a table.
C2_Original ==
    (pc = "returned" /\ BothScalar) => result.form = "scalar"

\* C2, amended: such a request returns a bare scalar when the response held
\* at least one field value, and the empty table when it held none.
C2_ScalarUnlessEmpty ==
    (pc = "returned" /\ BothScalar) =>
        /\ TotalVals(response) > 0 => result = Scalar
        /\ TotalVals(response) = 0 => result = Table("empty")

C2_Witness ==
    pc = "returned" /\ BothScalar /\ result.form = "scalar"

\* C3: a request reaches session.sendRequest only while active is true.
C3_SubmittedOnlyWhenActive == submitted => active

\* C4: entering the with-block leaves the connection active; leaving it, on
\* whatever exit path, leaves the session stopped and active false, and the
\* error that ended the body reaches the caller.
C4_ScopedAcquisition ==
    [][/\ enter => (active' /\ sessionUp' /\ scope' = "inside")
       /\ exit => (~active' /\ ~sessionUp' /\ scope' = "outside"
                   /\ propagated' = exitExc')]_vars

\* A RequestError raised in the body left the block and the session is down.
C4_Witness ==
    /\ scope = "outside"
    /\ exitExc = "RequestError"
    /\ propagated = "RequestError"
    /\ ~active
    /\ ~sessionUp

Alternates(l) ==
    \A i \in DOMAIN l : l[i] = (IF i % 2 = 1 THEN "start" ELSE "stop")

\* C5: open() on an active connection and close() (also from __exit__ and
\* __del__) on an inactive one change nothing of the connection, and the
\* session starts and stops alternate, beginning with a start.
C5_Idempotent ==
    /\ []Alternates(log)
    /\ [][(active /\ open) => UNCHANGED <<connVars, served>>]_vars
    /\ [][(~active /\ (close \/ exit \/ del)) => UNCHANGED <<connVars, served>>]_vars

\* The connection was opened, closed and opened again.
C5_Witness ==
    log = <<"start", "stop", "start">> /\ active /\ session = 2

Historical == pc = "returned" /\ req.kind = "historical"

ElementsOf(r) == IF r.kind = "historical" THEN HistoricalElements ELSE kwargs

IsCalendarDate(v) == v.t \in {"datetime", "date"}

EightDigitDate(a, v) ==
    /\ a.t = "str"
    /\ Len(a.digits) = 8
    /\ strptime(a.digits) = <<v.y, v.m, v.d>>

\* C7, as stated: every option value that is a calendar date is attached as
\* the 8-digit string that reads back as the same date, and every other
\* value is attached unchanged.
C7_Original ==
    submitted =>
        \A k \in DOMAIN attached :
            LET v == ElementsOf(req)[k]
            IN  IF IsCalendarDate(v) THEN EightDigitDate(attached[k], v)
                ELSE attached[k] = v

\* C7, amended: every option value whose type is datetime itself and whose
\* year has four digits is attached as the 8-digit string that reads back
\* as the same date; every value of another type, a date that is not a
\* datetime included, is attached unchanged.
C7_DatetimeSerialized ==
    submitted =>
        /\ DOMAIN attached = DOMAIN ElementsOf(req)
        /\ \A k \in DOMAIN attached :
              LET v == ElementsOf(req)[k]
              IN  /\ (v.t = "datetime" /\ Len(DigitsOf(v.y)) = 4) =>
                         EightDigitDate(attached[k], v)
                  /\ v.t # "datetime" => attached[k] = v

\* A datetime startDate and a datetime endDate given as a keyword option.
C7_Witness ==
    /\ submitted
    /\ req.kind = "historical"
    /\ startDate = DateTime(2014, 12, 31)
    /\ attached["startDate"] = Str(<<2, 0, 1, 4, 1, 2, 3, 1>>)
    /\ "endDate" \in DOMAIN kwargs
    /\ attached["endDate"] = Str(<<2, 0, 1, 4, 0, 1, 0, 1>>)

\* C8: the response set is, in arrival order, exactly the messages of the
\* expected type among those polled; a call returns at the first RESPONSE
\* event it polls, having met no error; a call that raised returns nothing.
C8_ResponseSet ==
    /\ pc \in {"polling", "returned"} =>
          /\ response = ExpectedOnly(polled, req.requestType)
          /\ \A i \in DOMAIN polled : ErrorOf(polled[i]) = "none"
    /\ pc = "polling" => terminals = 0
    /\ pc = "returned" => terminals = 1
    /\ pc = "raised" => (result = NoResult /\ response = <<>>)
    /\ pc # "returned" => result = NoResult

\* Two messages were polled and the one of another type was dropped.
C8_Witness ==
    /\ pc = "returned"
    /\ Len(polled) = 2
    /\ Len(response) = 1
    /\ polled[1].mtype = "Other"

\* C9: the loop is left by return only on an event of type RESPONSE (the
\* returning step counts one such event and is the poll that delivers it, not
\* a timeout, a partial response or another event), and once the service
\* delivers one, a polling call returns or raises.
C9_ReturnsOnTerminal ==
    /\ [][(pc = "polling" /\ pc' = "returned") => terminals' = terminals + 1]_vars
    /\ [][(pc = "polling" /\ pc' = "returned") => PollResponse]_vars
    /\ (pc = "polling") ~> (pc \in {"returned", "raised"})

\* A call returned after a partial response and the RESPONSE event.
C9_Witness ==
    /\ pc = "returned"
    /\ terminals = 1
    /\ Len(polled) = 2
    /\ polled[1].seq = 1
    /\ polled[2].seq = 2
    /\ polled[1].rid = req.rid
    /\ polled[2].rid = req.rid

\* C10: every message a call polls was produced for that call's request.
C10_OwnMessagesOnly ==
    \A i \in DOMAIN polled : polled[i].rid = req.rid

====
